---- MODULE Spec2Model ----
(***************************************************************************)
(* Model of src/cisco_ssh_shell.py: the CiscoSwitch client (connect,       *)
(* send_command, show_running_config, save_config_to_file, disconnect)     *)
(* and the __main__ example driver, together with the parts of the         *)
(* environment the client talks to: the SSH transport and interactive      *)
(* channel (paramiko), the device's output stream and the output file.     *)
(*                                                                         *)
(* Text is a sequence of one-character strings; "LF" and "CR" stand for    *)
(* the characters \n and \r, "E9" for the non-ASCII character U+00E9,      *)
(* whose UTF-8 encoding is the two bytes "C3" "A9".  An optional value     *)
(* (Python's None or a value) is a sequence of length 0 or 1.              *)
(***************************************************************************)
EXTENDS Integers, Sequences, FiniteSets, TLC

VARIABLES
    ssh_client,   \* self.ssh_client: "None" | "new" | "open" | "closed"
    shell,        \* self.shell: "None" | "open" | "stale" | "closed"
    stream,       \* bytes the device has sent on self.shell since it was opened
    rpos,         \* how many bytes of stream recv() has already handed out
    returned,     \* concatenation of the texts send_command returned on this shell
    lostBytes,    \* a failed send_command consumed bytes of this shell's stream
    everConnected,\* some connect() call took its success path
    sessionOpen,  \* a connect() succeeded and no disconnect() was called since
    file,         \* content of switch_config.cfg: None (no file) or Some(text)
    os_linesep,   \* the platform's line separator (os.linesep)
    called,       \* the client method the caller invoked last
    last,         \* what that call did: path, return value, transport calls, ...
    pc,           \* position of the __main__ driver ("lib": no driver, free calls)
    running_config, \* the driver's local variable running_config
    pending,      \* an exception raised in the driver's try block is in flight
    ndisc         \* number of disconnect() calls the driver made

clientVars == <<ssh_client, shell, stream, rpos, returned, lostBytes,
                everConnected, sessionOpen>>
fileVars == <<file, os_linesep>>
driverVars == <<pc, running_config, pending, ndisc>>
vars == <<ssh_client, shell, stream, rpos, returned, lostBytes, everConnected,
          sessionOpen, file, os_linesep, called, last, pc, running_config, pending, ndisc>>

-----------------------------------------------------------------------------
(* Bounds of the model.                                                    *)

\* Most bytes the device produces on one shell.
MaxStream == 2
\* Longest text handed to save_config_to_file / found in the file initially.
MaxText == 2

-----------------------------------------------------------------------------
(* Values.                                                                 *)

None == <<>>
Some(x) == <<x>>

Byte == {"a", "LF", "C3", "A9"}
Whitespace == {"LF", "CR"}

RECURSIVE SeqsUpTo(_, _)
SeqsUpTo(S, n) ==
    IF n = 0 THEN {<<>>}
    ELSE LET shorter == SeqsUpTo(S, n - 1)
         IN  shorter \cup {Append(s, x) : s \in {t \in shorter : Len(t) = n - 1}, x \in S}

\* bytes.decode('utf-8'): None stands for UnicodeDecodeError.
RECURSIVE decode(_)
decode(b) ==
    IF b = <<>> THEN Some(<<>>)
    ELSE IF Head(b) \in {"a", "LF"}
         THEN LET r == decode(Tail(b))
              IN  IF r = None THEN None ELSE Some(<<Head(b)>> \o r[1])
    ELSE IF Head(b) = "C3" /\ Len(b) >= 2 /\ b[2] = "A9"
         THEN LET r == decode(SubSeq(b, 3, Len(b)))
              IN  IF r = None THEN None ELSE Some(<<"E9">> \o r[1])
    ELSE None

\* str.strip(): leading and trailing whitespace removed.
RECURSIVE lstrip(_)
lstrip(t) ==
    IF t # <<>> /\ Head(t) \in Whitespace THEN lstrip(Tail(t)) ELSE t

RECURSIVE rstrip(_)
rstrip(t) ==
    IF t # <<>> /\ t[Len(t)] \in Whitespace THEN rstrip(SubSeq(t, 1, Len(t) - 1)) ELSE t

strip(t) == rstrip(lstrip(t))


Min(a, b) == IF a <= b THEN a ELSE b

-----------------------------------------------------------------------------
(* Program constants.                                                      *)

\* time.sleep(1) after invoke_shell.
ShellInitDelay == 1
\* send_command's default timeout.
DefaultTimeout == 2
\* the timeout show_running_config passes.
ConfigTimeout == 5
\* recv(65535): the most bytes one recv() hands out.
RecvSize == 65535

\* The command a caller of the library passes to send_command here;
\* show_running_config passes its own.
Commands == {"show version"}
Timeouts == {DefaultTimeout, ConfigTimeout}

\* The record kept of one call of a client method.
\* arg: the arguments; path: "ok", "not_connected" (the raise of line 58) or
\* "exception"; ret: the value returned; raised: an exception left the method;
\* calls: the transport and file calls made, in order; sent: what was handed
\* to shell.send or f.write; written: that call returned; slept: the
\* time.sleep the method made; from: rpos when the method was entered.
Call(arg, path, ret, raised, calls, sent, written, slept, from) ==
    [arg |-> arg, path |-> path, ret |-> ret, raised |-> raised, calls |-> calls,
     sent |-> sent, written |-> written, slept |-> slept, from |-> from]

NoCall == Call(None, "none", None, FALSE, <<>>, None, FALSE, 0, 0)

-----------------------------------------------------------------------------
(* CiscoSwitch.connect                                                     *)

\* connectOk: ssh_client.connect() returns; shellOk: invoke_shell() returns.
\* Line 27 replaces self.ssh_client before anything can fail, so a shell
\* opened by an earlier connect() now belongs to a client no longer held.
connect ==
    \E connectOk \in BOOLEAN, shellOk \in BOOLEAN :
        LET kept == IF shell = "open" THEN "stale" ELSE shell
        IN  IF ~connectOk
            THEN /\ ssh_client' = "new"
                 /\ shell' = kept
                 /\ last' = Call(None, "exception", None, FALSE, <<"connect">>,
                                 None, FALSE, 0, rpos)
                 /\ UNCHANGED <<stream, rpos, returned, lostBytes,
                                everConnected, sessionOpen>>
            ELSE IF ~shellOk
            THEN /\ ssh_client' = "open"
                 /\ shell' = kept
                 /\ last' = Call(None, "exception", None, FALSE,
                                 <<"connect", "invoke_shell">>, None, FALSE, 0, rpos)
                 /\ UNCHANGED <<stream, rpos, returned, lostBytes,
                                everConnected, sessionOpen>>
            ELSE /\ ssh_client' = "open"
                 /\ shell' = "open"
                 /\ stream' = <<>>
                 /\ rpos' = 0
                 /\ returned' = <<>>
                 /\ lostBytes' = FALSE
                 /\ everConnected' = TRUE
                 /\ sessionOpen' = TRUE
                 /\ last' = Call(None, "ok", None, FALSE, <<"connect", "invoke_shell">>,
                                 None, FALSE, ShellInitDelay, 0)

-----------------------------------------------------------------------------
(* The device at the other end of the channel.                             *)

\* The device sends one more byte on the channel self.shell holds.  When a
\* byte sent reaches the channel's receive buffer is not constrained: a
\* drain may find any prefix of the bytes not yet read (see send_command).
device_output ==
    /\ shell \in {"open", "stale"}
    /\ Len(stream) < MaxStream
    /\ \E b \in Byte : stream' = Append(stream, b)
    /\ UNCHANGED <<ssh_client, shell, rpos, returned, lostBytes, everConnected,
                   sessionOpen, called, last>>

-----------------------------------------------------------------------------
(* CiscoSwitch.send_command                                                *)

\* `not self.shell`: no shell object is held.
\* (not_shell_client: the faulty variant that tests self.ssh_client.)
not_shell_client == ssh_client = "None"
not_shell == shell = "None"

\* What the except clause returns; output is the local variable at the
\* time of the exception (None while it is still unassigned).
\* (send_command_partial: the faulty variant that returns what was read.)
send_command_partial(output) == IF output = None THEN None ELSE Some(strip(output[1]))
send_command_except(output) == None

\* output += chunk
\* (accumulate_last: the faulty variant `output = chunk`.)
accumulate_last(output, text) == text
accumulate(output, text) == output \o text

\* The ways successive recv(65535) calls can hand out the bytes seg.
RECURSIVE Chunkings(_)
Chunkings(seg) ==
    IF seg = <<>> THEN {<<>>}
    ELSE UNION { { <<SubSeq(seg, 1, k)>> \o rest :
                     rest \in Chunkings(SubSeq(seg, k + 1, Len(seg))) } :
                 k \in 1..Min(Len(seg), RecvSize) }

RECURSIVE TotalLen(_, _)
TotalLen(chunks, n) ==
    IF n = 0 THEN 0 ELSE Len(chunks[n]) + TotalLen(chunks, n - 1)

\* The loop `while recv_ready(): output += recv(65535).decode('utf-8')` from
\* its i-th iteration on.  chunks[i] is what the i-th recv() hands out and
\* recv_ready() is false once they are used up; recv() number failAt raises.
RECURSIVE drain(_, _, _, _)
drain(chunks, i, failAt, output) ==
    IF i > Len(chunks)
    THEN [ok |-> TRUE, output |-> output, nread |-> Len(chunks),
          calls |-> <<"recv_ready">>]
    ELSE IF failAt = i
    THEN [ok |-> FALSE, output |-> output, nread |-> i - 1,
          calls |-> <<"recv_ready", "recv">>]
    ELSE LET text == decode(chunks[i])
         IN  IF text = None
             THEN [ok |-> FALSE, output |-> output, nread |-> i,
                   calls |-> <<"recv_ready", "recv">>]
             ELSE LET r == drain(chunks, i + 1, failAt, accumulate(output, text[1]))
                  IN  [r EXCEPT !.calls = <<"recv_ready", "recv">> \o @]

send_command(command, timeout) ==
    /\ UNCHANGED <<ssh_client, shell, everConnected, sessionOpen>>
    /\ IF not_shell
       THEN /\ last' = Call(<<command, timeout>>, "not_connected",
                            send_command_except(None), FALSE,
                            <<>>, None, FALSE, 0, rpos)
            /\ UNCHANGED <<stream, rpos, returned, lostBytes>>
       ELSE \E sendOk \in BOOLEAN :
            IF shell \notin {"open", "stale"} \/ ~sendOk
            THEN /\ last' = Call(<<command, timeout>>, "exception",
                                 send_command_except(None), FALSE,
                                 IF shell = "None" THEN <<>> ELSE <<"send">>,
                                 Some(<<command, "LF">>), FALSE, 0, rpos)
                 /\ UNCHANGED <<stream, rpos, returned, lostBytes>>
            ELSE \E n \in 0..(Len(stream) - rpos) :
                 \E chunks \in Chunkings(SubSeq(stream, rpos + 1, rpos + n)) :
                 \E failAt \in 0..Len(chunks) :
                    LET d == drain(chunks, 1, failAt, <<>>)
                        ret == IF d.ok THEN Some(strip(d.output))
                               ELSE send_command_except(Some(d.output))
                    IN  /\ stream' = stream
                        /\ rpos' = rpos + TotalLen(chunks, d.nread)
                        /\ returned' = IF d.ok THEN returned \o strip(d.output)
                                       ELSE returned
                        /\ lostBytes' = (lostBytes \/ (~d.ok /\ d.nread > 0))
                        /\ last' = Call(<<command, timeout>>,
                                        IF d.ok THEN "ok" ELSE "exception", ret,
                                        FALSE, <<"send">> \o d.calls,
                                        Some(<<command, "LF">>), TRUE, timeout, rpos)

-----------------------------------------------------------------------------
(* CiscoSwitch.show_running_config                                         *)

\* (show_running_config_default: the faulty variant that leaves the timeout out.)
show_running_config_default == send_command("show running-config", DefaultTimeout)
show_running_config == send_command("show running-config", ConfigTimeout)

-----------------------------------------------------------------------------
(* CiscoSwitch.disconnect                                                  *)

\* closeRaises: ssh_client.close() raises.
\* (disconnect_notry: the faulty variant without the try/except.)
disconnect_notry ==
    \E closeRaises \in BOOLEAN :
        /\ sessionOpen' = FALSE
        /\ UNCHANGED <<stream, rpos, returned, lostBytes, everConnected>>
        /\ IF ssh_client = "None"
           THEN /\ last' = Call(None, "ok", None, FALSE, <<>>, None, FALSE, 0, rpos)
                /\ UNCHANGED <<ssh_client, shell>>
           ELSE IF closeRaises
           THEN /\ last' = Call(None, "exception", None, TRUE, <<"close">>,
                                None, FALSE, 0, rpos)
                /\ UNCHANGED <<ssh_client, shell>>
           ELSE /\ last' = Call(None, "ok", None, FALSE, <<"close">>, None, FALSE, 0, rpos)
                /\ ssh_client' = IF ssh_client = "open" THEN "closed" ELSE ssh_client
                /\ shell' = IF shell = "open" THEN "closed" ELSE shell

disconnect ==
    \E closeRaises \in BOOLEAN :
        /\ sessionOpen' = FALSE
        /\ UNCHANGED <<stream, rpos, returned, lostBytes, everConnected>>
        /\ IF ssh_client = "None"
           THEN /\ last' = Call(None, "ok", None, FALSE, <<>>, None, FALSE, 0, rpos)
                /\ UNCHANGED <<ssh_client, shell>>
           ELSE IF closeRaises
           THEN /\ last' = Call(None, "exception", None, FALSE, <<"close">>,
                                None, FALSE, 0, rpos)
                /\ UNCHANGED <<ssh_client, shell>>
           ELSE /\ last' = Call(None, "ok", None, FALSE, <<"close">>, None, FALSE, 0, rpos)
                /\ ssh_client' = IF ssh_client = "open" THEN "closed" ELSE ssh_client
                /\ shell' = IF shell = "open" THEN "closed" ELSE shell


-----------------------------------------------------------------------------
(* CiscoSwitch.save_config_to_file                                         *)

FileChar == {"a", "LF", "E9"}
Texts == SeqsUpTo(FileChar, MaxText)
Configs == {None} \cup {Some(t) : t \in Texts}

\* A text-mode file (newline=None) writes each "\n" as os.linesep.
RECURSIVE translate(_, _)
translate(t, linesep) ==
    IF t = <<>> THEN <<>>
    ELSE (IF Head(t) = "LF" THEN linesep ELSE <<Head(t)>>) \o translate(Tail(t), linesep)

\* open(filename, "w") on a file holding old: the content right after it.
\* (open_a: the faulty variant that opens in mode "a".)
open_a(old) == old
open_w(old) == <<>>

\* openOk: open() returns; ioOk: write() and close() of a string succeed.
\* config is None or Some(text); f.write(None) raises TypeError after the
\* file was opened.  A failing write or close leaves some prefix on disk.
save_config_to_file(config) ==
    \E openOk \in BOOLEAN, ioOk \in BOOLEAN :
        LET old == IF file = None THEN <<>> ELSE file[1]
        IN  /\ UNCHANGED <<clientVars, os_linesep>>
            /\ IF ~openOk
               THEN /\ file' = file
                    /\ last' = Call(config, "exception", None, FALSE, <<"open">>,
                                    None, FALSE, 0, rpos)
               ELSE IF config = None
               THEN /\ file' = Some(open_w(old))
                    /\ last' = Call(config, "exception", None, FALSE,
                                    <<"open", "write", "close">>, None, FALSE, 0, rpos)
               ELSE LET data == translate(config[1], os_linesep)
                    IN  IF ~ioOk
                        THEN \E k \in 0..Len(data) :
                             /\ file' = Some(open_w(old) \o SubSeq(data, 1, k))
                             /\ last' = Call(config, "exception", None, FALSE,
                                             <<"open", "write", "close">>,
                                             None, FALSE, 0, rpos)
                        ELSE /\ file' = Some(open_w(old) \o data)
                             /\ last' = Call(config, "ok", None, FALSE,
                                             <<"open", "write", "close">>,
                                             Some(config[1]), TRUE, 0, rpos)

-----------------------------------------------------------------------------
(* The client used as a library: any sequence of calls on one object.      *)

\* __init__: no client, no shell.
InitClient ==
    /\ ssh_client = "None"
    /\ shell = "None"
    /\ stream = <<>>
    /\ rpos = 0
    /\ returned = <<>>
    /\ lostBytes = FALSE
    /\ everConnected = FALSE
    /\ sessionOpen = FALSE
    /\ called = "__init__"
    /\ last = NoCall

LineSeps == {<<"LF">>, <<"CR", "LF">>}

\* What a caller of the library hands to save_config_to_file here: the
\* result of a failed command, or a text.
LibConfigs == {None, Some(<<"a", "LF">>)}

\* The session and the file do not read each other's state: here the file
\* starts absent on a platform whose os.linesep is "\n"; FileSpec and
\* DriverSpec start from every earlier content and both line separators.
Init ==
    /\ InitClient
    /\ file = None
    /\ os_linesep = <<"LF">>
    /\ pc = "lib"
    /\ running_config = None
    /\ pending = FALSE
    /\ ndisc = 0

Next ==
    \/ /\ called' = "connect"
       /\ connect
       /\ UNCHANGED <<fileVars, driverVars>>
    \/ /\ called' = "send_command"
       /\ \E command \in Commands, timeout \in Timeouts : send_command(command, timeout)
       /\ UNCHANGED <<fileVars, driverVars>>
    \/ /\ called' = "show_running_config"
       /\ show_running_config
       /\ UNCHANGED <<fileVars, driverVars>>
    \/ /\ called' = "save_config_to_file"
       /\ \E config \in LibConfigs : save_config_to_file(config)
       /\ UNCHANGED driverVars
    \/ /\ called' = "disconnect"
       /\ disconnect
       /\ UNCHANGED <<fileVars, driverVars>>
    \/ /\ device_output
       /\ UNCHANGED <<fileVars, driverVars>>

Spec == Init /\ [][Next]_vars


-----------------------------------------------------------------------------
(* save_config_to_file alone: every text, every earlier content of the     *)
(* file, both line separators.                                             *)

PriorFiles == {None} \cup {Some(t) : t \in Texts}

FileInit ==
    /\ InitClient
    /\ file \in PriorFiles
    /\ os_linesep \in LineSeps
    /\ pc = "lib"
    /\ running_config = None
    /\ pending = FALSE
    /\ ndisc = 0

FileNext ==
    /\ called' = "save_config_to_file"
    /\ \E config \in Configs : save_config_to_file(config)
    /\ UNCHANGED driverVars

FileSpec == FileInit /\ [][FileNext]_vars

-----------------------------------------------------------------------------
(* The __main__ driver: try: connect, send_command("show version"),        *)
(* print, show_running_config, print, save_config_to_file; finally:        *)
(* disconnect.                                                             *)

\* Where control goes when a statement of the try block raises.
\* (no_finally: the faulty variant with disconnect() after the block, not in
\* a finally clause.)
no_finally == "done"
on_raise == "finally"

\* The statement after a call: the next one, or the finally clause when
\* the call raised.
after(next) ==
    /\ pending' = last'.raised
    /\ pc' = IF last'.raised THEN on_raise ELSE next

main_connect ==
    /\ pc = "connect"
    /\ called' = "connect"
    /\ connect
    /\ after("show_version")
    /\ UNCHANGED <<fileVars, running_config, ndisc>>

main_show_version ==
    /\ pc = "show_version"
    /\ called' = "send_command"
    /\ send_command("show version", DefaultTimeout)
    /\ after("print_output")
    /\ UNCHANGED <<fileVars, running_config, ndisc>>

\* print("Output of 'show version':"); print(output)
main_print_output ==
    /\ pc = "print_output"
    /\ \E raises \in BOOLEAN :
          /\ pending' = raises
          /\ pc' = IF raises THEN on_raise ELSE "show_running_config"
    /\ UNCHANGED <<clientVars, fileVars, called, last, running_config, ndisc>>

main_show_running_config ==
    /\ pc = "show_running_config"
    /\ called' = "show_running_config"
    /\ show_running_config
    /\ running_config' = last'.ret
    /\ after("print_config")
    /\ UNCHANGED <<fileVars, ndisc>>

\* print("\nRunning Configuration:"); print(running_config)
main_print_config ==
    /\ pc = "print_config"
    /\ \E raises \in BOOLEAN :
          /\ pending' = raises
          /\ pc' = IF raises THEN on_raise ELSE "save"
    /\ UNCHANGED <<clientVars, fileVars, called, last, running_config, ndisc>>

main_save ==
    /\ pc = "save"
    /\ called' = "save_config_to_file"
    /\ save_config_to_file(running_config)
    /\ after("finally")
    /\ UNCHANGED <<running_config, ndisc>>

main_finally ==
    /\ pc = "finally"
    /\ called' = "disconnect"
    /\ disconnect
    /\ ndisc' = ndisc + 1
    /\ pending' = (pending \/ last'.raised)
    /\ pc' = "done"
    /\ UNCHANGED <<fileVars, running_config>>

DriverInit ==
    /\ InitClient
    /\ file \in PriorFiles
    /\ os_linesep \in LineSeps
    /\ pc = "connect"
    /\ running_config = None
    /\ pending = FALSE
    /\ ndisc = 0

DriverNext ==
    \/ main_connect
    \/ main_show_version
    \/ main_print_output
    \/ main_show_running_config
    \/ main_print_config
    \/ main_save
    \/ main_finally
    \/ /\ pc # "done"
       /\ device_output
       /\ UNCHANGED <<fileVars, driverVars>>

DriverSpec == DriverInit /\ [][DriverNext]_vars


-----------------------------------------------------------------------------
(* Properties.                                                             *)

SendOps == {"send_command", "show_running_config"}
Range(q) == {q[i] : i \in 1..Len(q)}
IsPrefix(p, s) == Len(p) <= Len(s) /\ SubSeq(s, 1, Len(p)) = p

\* str.encode('utf-8'), the inverse of decode on valid text.
RECURSIVE encode(_)
encode(t) ==
    IF t = <<>> THEN <<>>
    ELSE (IF Head(t) = "E9" THEN <<"C3", "A9">> ELSE <<Head(t)>>) \o encode(Tail(t))

\* C1: on a client on which no connect() has succeeded, every send_command
\* and show_running_config takes the "not connected" path: it returns None
\* and makes no transport call, whatever the command and the timeout.
C1_NotConnectedBeforeConnect ==
    (~everConnected /\ called \in SendOps) =>
        /\ last.path = "not_connected"
        /\ last.ret = None
        /\ last.calls = <<>>
        /\ ~last.written

\* A command was tried after connect() failed at invoke_shell: the transport
\* is open, there is no shell.
C1_Witness ==
    /\ ~everConnected
    /\ called = "send_command"
    /\ ssh_client = "open"
    /\ last.arg = <<"show version", ConfigTimeout>>
    /\ last.path = "not_connected"

\* C2: shell.send is called only between a successful connect() and the
\* following disconnect(); a send_command outside that window takes the
\* "not connected" path and writes nothing.
C2_SendOnlyWhileSessionOpen ==
    called \in SendOps =>
        /\ "send" \in Range(last.calls) => sessionOpen
        /\ ~sessionOpen => (last.path = "not_connected" /\ ~last.written)

\* C3: a connect() that ends on its failure path leaves the client
\* disconnected: no open transport, no shell send_command would accept.
C3_FailedConnectLeavesDisconnected ==
    (called = "connect" /\ last.path = "exception") =>
        /\ ssh_client # "open"
        /\ shell = "None"

\* C4: disconnect() never raises, in any client state, also when close()
\* raises; without an ssh_client, close() is not called.
C4_DisconnectNeverRaises ==
    called = "disconnect" =>
        /\ ~last.raised
        /\ ssh_client = "None" => last.calls = <<>>
        /\ last.path = "exception" => last.calls = <<"close">>

\* close() raised in a disconnect() after a successful connect().
C4_Witness ==
    /\ called = "disconnect"
    /\ last.path = "exception"
    /\ everConnected
    /\ ssh_client = "open"
    /\ ~last.raised


\* C5 as stated: once save_config_to_file(text, path) returns, the file
\* holds exactly text, for every text the driver can pass (None included)
\* and every earlier content.
C5_FileAlwaysHoldsText ==
    called = "save_config_to_file" => file = last.arg

\* C5 as amended: when save_config_to_file takes its success path (text is
\* a string, open, write and close succeed), the file holds text as a
\* text-mode file writes it, each "\n" as os.linesep: exactly text where
\* os.linesep is "\n" or text has no "\n".  On the failure path the file
\* need not hold text.
C5_FileHoldsTextOnSuccess ==
    (called = "save_config_to_file" /\ last.path = "ok") =>
        /\ last.arg # None
        /\ file # None
        /\ file = Some(translate(last.arg[1], os_linesep))
        /\ (os_linesep = <<"LF">> \/ "LF" \notin Range(last.arg[1])) => file = last.arg
        /\ Len(file[1]) >= Len(last.arg[1])

\* A text with a newline was saved where os.linesep is "\r\n".
C5_Witness ==
    /\ called = "save_config_to_file"
    /\ last.path = "ok"
    /\ os_linesep = <<"CR", "LF">>
    /\ last.arg = Some(<<"a", "LF">>)
    /\ file = Some(<<"a", "CR", "LF">>)

\* C6: no method lets an exception out: connect, save_config_to_file and
\* disconnect return normally, send_command and show_running_config return
\* None on every failure, also when the drain fails after chunks were read.
C6_ExceptionsCaughtAtBoundary ==
    /\ ~last.raised
    /\ called \in {"connect", "save_config_to_file", "disconnect"} => last.ret = None
    /\ (called \in SendOps /\ last.path # "ok") => last.ret = None
    /\ (called \in SendOps /\ last.path = "ok") => last.ret # None

\* send_command failed after it had read bytes, and returned None.
C6_Witness ==
    /\ called = "send_command"
    /\ last.path = "exception"
    /\ rpos > last.from
    /\ Len(last.calls) > Len(<<"send", "recv_ready", "recv">>)
    /\ last.ret = None

\* C7: show_running_config() is send_command("show running-config",
\* timeout=5): each of its steps is a step of that call, with the same
\* transport calls, the delay of 5 (not the default 2) and the same result.
C7_ShowRunningConfigIsSendCommand ==
    [][ (called' = "show_running_config" /\ stream' = stream) =>
            /\ send_command("show running-config", 5)
            /\ last'.arg = <<"show running-config", 5>>
            /\ last'.written =>
                  /\ last'.slept = 5
                  /\ last'.slept > DefaultTimeout
                  /\ last'.sent = Some(<<"show running-config", "LF">>)
      ]_vars

\* show_running_config returned drained output after the delay of 5.
C7_Witness ==
    /\ called = "show_running_config"
    /\ last.path = "ok"
    /\ last.slept = ConfigTimeout
    /\ last.ret = Some(<<"E9">>)

\* C8: the driver calls connect, send_command("show version"),
\* show_running_config, save_config_to_file, disconnect in this order; on
\* every path disconnect() is called exactly once and is the last call.
C8_DriverDisconnectsOnceAndLast ==
    /\ ndisc <= 1
    /\ pc = "done" => (ndisc = 1 /\ called = "disconnect")
    /\ ndisc >= 1 => (pc = "done" /\ called = "disconnect")
    /\ pc = "connect" => called = "__init__"
    /\ pc = "show_version" => called = "connect"
    /\ pc \in {"print_output", "show_running_config"} =>
          (called = "send_command" /\ last.arg = <<"show version", DefaultTimeout>>)
    /\ pc \in {"print_config", "save"} => called = "show_running_config"
    /\ pc = "finally" => called \in {"send_command", "show_running_config",
                                       "save_config_to_file"}

\* The driver ended after a statement between the calls raised.
C8_Witness ==
    /\ pc = "done"
    /\ pending
    /\ ndisc = 1
    /\ everConnected
    /\ running_config = None

\* What a successful send_command does with the transport: one send of the
\* command and a newline, the delay, reads until recv_ready() is false.
SendsOnceAndDrains ==
    (called \in SendOps /\ last.path = "ok") =>
        /\ last.written
        /\ last.sent = Some(<<last.arg[1], "LF">>)
        /\ last.calls[1] = "send"
        /\ "send" \notin Range(Tail(last.calls))
        /\ last.slept = last.arg[2]
        /\ last.calls[Len(last.calls)] = "recv_ready"
        /\ last.from <= rpos
        /\ rpos <= Len(stream)

\* text with its whitespace characters left out.
RECURSIVE NoWhitespace(_)
NoWhitespace(t) ==
    IF t = <<>> THEN <<>>
    ELSE (IF Head(t) \in Whitespace THEN <<>> ELSE <<Head(t)>>) \o NoWhitespace(Tail(t))

\* C9 as stated: over the successful send_command calls on a shell, the
\* bytes returned are, in order and without repetition, a prefix of the
\* byte stream the device sent since the shell was opened.
C9_ReturnedIsPrefixOfStream ==
    /\ SendsOnceAndDrains
    /\ ~lostBytes => IsPrefix(encode(returned), stream)

\* C9 as amended: a successful send_command returns the decoded text of
\* exactly the bytes it read, in arrival order, with leading and trailing
\* whitespace stripped; it reads from where the previous read on the shell
\* stopped, and later bytes stay buffered.  What the calls return is not a
\* prefix of the stream: the whitespace at the ends of each call's bytes is
\* dropped.  Where no failed call consumed bytes, the non-whitespace
\* characters returned are those of the bytes read so far, in order.
C9_ReturnsStrippedSegment ==
    /\ SendsOnceAndDrains
    /\ (called \in SendOps /\ last.path = "ok") =>
          LET text == decode(SubSeq(stream, last.from + 1, rpos))
          IN  /\ text # None
              /\ last.ret = Some(strip(text[1]))
    /\ ~lostBytes =>
          LET read == decode(SubSeq(stream, 1, rpos))
          IN  /\ read # None
              /\ NoWhitespace(returned) = NoWhitespace(read[1])

\* A second successful call returned the byte the first one left behind;
\* the first one's whitespace was stripped.
C9_Witness ==
    /\ called \in SendOps
    /\ last.path = "ok"
    /\ ~lostBytes
    /\ stream = <<"LF", "a">>
    /\ last.from = 1
    /\ rpos = Len(stream)
    /\ last.ret = Some(<<"a">>)
    /\ returned = <<"a">>

\* C10: a save_config_to_file that takes its failure path leaves the file
\* as it was.
C10_FailedSaveLeavesFile ==
    [][ (called' = "save_config_to_file" /\ last'.path = "exception") =>
            file' = file ]_vars

====
